---- MODULE Spec2Model ----
(***************************************************************************)
(* A model of sharedmem (src/src/__init__.py): the worker pool engine      *)
(* Pool.map / Pool.map_debug with its two backends, the partitioner split  *)
(* / zipsplit / array_split, and the parallel argsort.                     *)
(*                                                                         *)
(* Pool.map is a master and np slaves that talk through two queues: the    *)
(* joinable task queue S and the result queue Q.  Every queue operation    *)
(* (put, get, task_done, join, empty) is one atomic step; the steps of the *)
(* master and of the slaves interleave freely.                             *)
(*                                                                         *)
(* Indices are 0-based as in the source; sequence position i+1 holds the   *)
(* item of index i.  The star flag only changes how an item is handed to   *)
(* the work function (spread or not); items here are numbers, so it is     *)
(* left out.                                                               *)
(***************************************************************************)
EXTENDS Integers, Sequences, FiniteSets, TLC

(***************************************************************************)
(* Bounds of the model.                                                    *)
(***************************************************************************)
MaxL == 3          \* longest input sequence handed to map
MaxNP == 2         \* largest number of slaves of a Pool
MaxTimeout == 2    \* largest retry count handed to set_timeout
MaxLen == 4        \* longest array handed to the partitioner
MaxChunks == 5     \* largest nchunks handed to the partitioner
MaxArgs == 2       \* longest argument bundle handed to the partitioner
FairMaxL == 2      \* longest input sequence under fair scheduling (at most MaxL)
FairMaxNP == 2     \* largest number of slaves under fair scheduling (at most MaxNP)
BackMaxL == 2      \* longest input sequence in BackendSpec (at most MaxL)
BackMaxNP == 2     \* largest number of slaves in BackendSpec (at most MaxNP)
MaxSortLen == 10   \* longest array handed to argsort
SortPeriod == 3    \* length of the key patterns the longer arrays repeat
MaxSerialLen == 4  \* longest array handed to argsort when cpu_count() is 1
MaxCpu == 3        \* largest cpu_count() of an argsort call

(***************************************************************************)
(* Program constants.                                                      *)
(***************************************************************************)
DefaultTimeout == 10   \* __timeout__ = 10

NoneIdx == 0 - 1       \* stands for Python's None in an integer field

VARIABLES
  shmdebug,    \* __shmdebug__ : BOOLEAN
  timeout,     \* __timeout__ : Nat
  np,          \* Pool.np
  serial,      \* Pool.serial
  pc,          \* where the master is in Pool.map / Pool.map_debug
  len,         \* len(sequence) of the running call
  ordered,     \* the ordered argument of the running call
  callback,    \* TRUE iff a callback was given to the running call
  L,           \* the local L of Pool.map: records still to receive
  S,           \* the task queue: work capsules <<i>> and sentinels <<>>
  unfinished,  \* S.unfinished_tasks (what S.join() waits for)
  Q,           \* the result queue
  queues,      \* TRUE once the call has created Q and S (lines 275-276)
  started,     \* how many slaves have been started
  wpc,         \* slave rank -> "new" | "get" | "run" | "ack" | "exiting" | "exited"
  wcap,        \* slave rank -> the work capsule it holds
  wdead,       \* slave rank -> the local flag dead
  R,           \* master: the result accumulator, tuples <<ind, r>>
  error,       \* master: the error accumulator, tuples <<e, traceback>>
  i,           \* master: loop counter (dispatch index, then join round)
  alive,       \* master: the local alive of the join loop
  rank,        \* master: the loop variable rank
  out,         \* what the call gave back to its caller
  warnAlive,   \* the number named by the "slaves alive" warning, NoneIdx if not logged
  extra,       \* how many "unexpected extra queue item" warnings were logged
  calls,       \* item index -> how often the work function was invoked on it
  sentinels,   \* slave rank -> how many sentinels it dequeued
  part,        \* the partitioner's call: its arguments and its result
  sort,        \* the argsort call: its arguments, its buffers and its result
  use_threads, \* Pool: TRUE for the thread backend, FALSE for the process backend
  shm,         \* a SharedMemArray of one cell per item, the work function writes it
  ordinary     \* an ordinary numpy array of the master, written the same way

poolvars == <<shmdebug, timeout, np, serial, pc, len, ordered, callback, L, S,
              unfinished, Q, queues, started, wpc, wcap, wdead, R, error, i, alive,
              rank, out, warnAlive, extra, calls, sentinels, use_threads, shm,
              ordinary>>

vars == <<shmdebug, timeout, np, serial, pc, len, ordered, callback, L, S,
          unfinished, Q, queues, started, wpc, wcap, wdead, R, error, i, alive,
          rank, out, warnAlive, extra, calls, sentinels, part,
                 sort, use_threads, shm, ordinary>>

Ranks == 0 .. (np - 1)

(***************************************************************************)
(* The caller's data: the input sequence of a given length, the work       *)
(* function and the callback.                                              *)
(***************************************************************************)
\* the input sequence of length n: the item of index k is n - k
sequence(n) == [k \in 1 .. n |-> n - (k - 1)]

\* the value the work function returns for an item (when it does not raise)
workfunc(x) == x * x

\* the caller-supplied callback
callbackfn(r) == r + 1

\* records on the result queue
Success(ind, val) == [tag |-> "ok", a |-> ind, b |-> val]
Failure(e) == [tag |-> "fail", a |-> e, b |-> e]
Dead == [tag |-> "dead", a |-> NoneIdx, b |-> NoneIdx]

Sentinel == <<>>

NoOut == [kind |-> "none", vals |-> <<>>, count |-> 0, desc |-> NoneIdx]


(***************************************************************************)
(* Result assembly (Pool.map, lines 339-343).                              *)
(***************************************************************************)
\* Python's order on the tuples (ind, r)
TupleLess(x, y) == x[1] < y[1] \/ (x[1] = y[1] /\ x[2] < y[2])

\* the position of the least tuple of a non-empty list (what heappop returns)
HeapMin(Rs) ==
  CHOOSE m \in 1 .. Len(Rs) :
    \A k \in 1 .. Len(Rs) : k = m \/ TupleLess(Rs[m], Rs[k]) \/ (Rs[k] = Rs[m] /\ m < k)

RemoveAt(Rs, m) == SubSeq(Rs, 1, m - 1) \o SubSeq(Rs, m + 1, Len(Rs))

RECURSIVE HeapPopAll(_)
\* heapq.heapify(R); [heapq.heappop(R)[1] for i in range(len(R))]
HeapPopAll(Rs) ==
  IF Rs = <<>> THEN <<>>
  ELSE LET m == HeapMin(Rs)
       IN <<Rs[m][2]>> \o HeapPopAll(RemoveAt(Rs, m))

\* [r[1] for r in R]
Values(Rs) == [k \in 1 .. Len(Rs) |-> Rs[k][2]]

AssembleUnsorted(ord, Rs) == Values(Rs)

\* the return value of a parallel map without errors
Assemble(ord, Rs) == IF ord THEN HeapPopAll(Rs) ELSE Values(Rs)

AggregatedLast(errs) ==
  [kind |-> "raise", vals |-> <<>>, count |-> Len(errs), desc |-> errs[Len(errs)][2]]

\* Exception('%d errors received\n' % len(error) + error[0][1])
Aggregated(errs) ==
  [kind |-> "raise", vals |-> <<>>, count |-> Len(errs), desc |-> errs[1][2]]

(***************************************************************************)
(* The state after the module is loaded and a Pool is constructed.         *)
(***************************************************************************)
PartIdle == [phase |-> "idle"]

SortIdle == [phase |-> "idle"]

\* the content of a buffer cell no work function has written
Unwritten == 0

WriteSharedPrivate(k, v, inSlave) ==
  shm' = IF inSlave /\ ~use_threads THEN shm ELSE [shm EXCEPT ![k] = v]

\* lines 387-390: a SharedMemArray lies in a RawArray, memory the master and
\* the slaves it forks or threads it starts all map: a write is to the one copy
WriteShared(k, v, inSlave) ==
  shm' = [shm EXCEPT ![k] = v]

\* lines 79-99, 205-211: an ordinary array is private memory: a slave
\* process writes its own copy of it, a slave thread and the master the
\* master's
WriteOrdinary(k, v, inSlave) ==
  ordinary' = IF inSlave /\ ~use_threads THEN ordinary ELSE [ordinary EXCEPT ![k] = v]

\* the work function on item k: it writes its value to cell k of both arrays
WorkWrites(k, inSlave) ==
  /\ WriteShared(k, workfunc(sequence(len)[k + 1]), inSlave)
  /\ WriteOrdinary(k, workfunc(sequence(len)[k + 1]), inSlave)

PoolInit ==
  /\ shmdebug = FALSE
  /\ timeout = DefaultTimeout
  /\ np \in 1 .. MaxNP
  /\ use_threads \in BOOLEAN
  /\ serial \in (IF use_threads THEN BOOLEAN ELSE {FALSE})
  /\ pc = "idle"
  /\ len = 0
  /\ ordered = FALSE
  /\ callback = FALSE
  /\ L = 0
  /\ S = <<>>
  /\ unfinished = 0
  /\ Q = <<>>
  /\ queues = FALSE
  /\ started = 0
  /\ wpc = [r \in 0 .. (MaxNP - 1) |-> "new"]
  /\ wcap = [r \in 0 .. (MaxNP - 1) |-> Sentinel]
  /\ wdead = [r \in 0 .. (MaxNP - 1) |-> FALSE]
  /\ R = <<>>
  /\ error = <<>>
  /\ i = 0
  /\ alive = 0
  /\ rank = 0
  /\ out = NoOut
  /\ warnAlive = NoneIdx
  /\ extra = 0
  /\ calls = [k \in 0 .. (MaxL - 1) |-> 0]
  /\ sentinels = [r \in 0 .. (MaxNP - 1) |-> 0]
  /\ shm = [k \in 0 .. (MaxL - 1) |-> Unwritten]
  /\ ordinary = [k \in 0 .. (MaxL - 1) |-> Unwritten]

\* Spec runs the process backend, and the thread backend in its serial form
\* (a nested Pool, lines 193-196).  The parallel thread backend differs from
\* the process backend only in the memory its slaves write; BackendSpec
\* below runs both.
Init == PoolInit /\ use_threads = serial /\ part = PartIdle /\ sort = SortIdle

(***************************************************************************)
(* Process-wide configuration.  __shmdebug__ is read by Pool.map at the    *)
(* call only, __timeout__ by the join loop only (line 321).  set_timeout   *)
(* commutes with every step that does not read __timeout__, so the model   *)
(* places the call last before the join loop; until then __timeout__ is    *)
(* the module's default.                                                   *)
(***************************************************************************)
set_debug(flag) ==
  /\ pc = "idle"
  /\ shmdebug' = flag
  /\ UNCHANGED <<timeout, np, serial, pc, len, ordered, callback, L, S,
                 unfinished, Q, queues, started, wpc, wcap, wdead, R, error, i, alive,
                 rank, out, warnAlive, extra, calls, sentinels, part,
                 sort, use_threads, shm, ordinary>>

set_timeout(t) ==
  /\ pc = "drain"
  /\ timeout' = t
  /\ UNCHANGED <<shmdebug, np, serial, pc, len, ordered, callback, L, S,
                 unfinished, Q, queues, started, wpc, wcap, wdead, R, error, i, alive,
                 rank, out, warnAlive, extra, calls, sentinels, part,
                 sort, use_threads, shm, ordinary>>

(***************************************************************************)
(* Pool.map, the master.                                                   *)
(***************************************************************************)
MapCallNoDebug(n, cb) ==
  /\ pc = "idle"
  /\ len' = n
  /\ callback' = cb
  /\ i' = 0
  /\ IF serial
       THEN /\ pc' = "debug"
            /\ L' = L
            /\ queues' = queues
       ELSE /\ pc' = IF n > 0 THEN "put_items" ELSE "put_sentinels"
            /\ L' = n
            /\ queues' = TRUE
  /\ UNCHANGED <<shmdebug, timeout, np, serial, ordered, S, unfinished, Q, started,
                 wpc, wcap, wdead, R, error, alive, rank, out, warnAlive,
                 extra, calls, sentinels, part,
                 sort, use_threads, shm, ordinary>>

\* lines 235-247, 274-278: the call, the debug/serial test, L, P, Q, S.
\* The argument ordered is read at line 339 only (and never by map_debug):
\* its value is drawn where it is read, in Report and map_debug.
MapCall(n, cb) ==
  /\ pc = "idle"
  /\ len' = n
  /\ callback' = cb
  /\ i' = 0
  /\ IF shmdebug \/ serial
       THEN /\ pc' = "debug"
            /\ L' = L
            /\ queues' = queues
       ELSE /\ pc' = IF n > 0 THEN "put_items" ELSE "put_sentinels"
            /\ L' = n
            /\ queues' = TRUE
  /\ UNCHANGED <<shmdebug, timeout, np, serial, ordered, S, unfinished, Q, started,
                 wpc, wcap, wdead, R, error, alive, rank, out, warnAlive,
                 extra, calls, sentinels, part,
                 sort, use_threads, shm, ordinary>>

\* lines 280-281: S.put((i, ))
PutItem ==
  /\ pc = "put_items"
  /\ S' = Append(S, <<i>>)
  /\ unfinished' = unfinished + 1
  /\ i' = i + 1
  /\ pc' = IF i + 1 < len THEN "put_items" ELSE "put_sentinels"
  /\ UNCHANGED <<shmdebug, timeout, np, serial, len, ordered, callback, L, Q,
                 queues, started, wpc, wcap, wdead, R, error, alive, rank, out,
                 warnAlive, extra, calls, sentinels, part,
                 sort, use_threads, shm, ordinary>>

\* lines 283-284: S.put(None); lines 288-290 build P once the loop is done
PutSentinel ==
  /\ pc = "put_sentinels"
  /\ S' = Append(S, Sentinel)
  /\ unfinished' = unfinished + 1
  /\ IF rank + 1 < np
       THEN rank' = rank + 1 /\ pc' = pc
       ELSE rank' = 0 /\ pc' = "start"
  /\ UNCHANGED <<shmdebug, timeout, np, serial, len, ordered, callback, L, Q,
                 queues, started, wpc, wcap, wdead, R, error, i, alive, out,
                 warnAlive, extra, calls, sentinels, part,
                 sort, use_threads, shm, ordinary>>

\* lines 292-293: p.start(); lines 298-299 once every slave is started
StartSlave ==
  /\ pc = "start"
  /\ wpc' = [wpc EXCEPT ![rank] = "get"]
  /\ started' = started + 1
  /\ IF rank + 1 < np
       THEN rank' = rank + 1 /\ pc' = pc
       ELSE rank' = 0 /\ pc' = "collect"
  /\ UNCHANGED <<shmdebug, timeout, np, serial, len, ordered, callback, L, S,
                 unfinished, Q, queues, wcap, wdead, R, error, i, alive, out,
                 warnAlive, extra, calls, sentinels, part,
                 sort, use_threads, shm, ordinary>>

\* line 302: isinstance(ind, Exception)
IsException(rec) == rec.tag = "fail"

IndexZeroIsNone(ind) == ind = NoneIdx \/ ind = 0

\* line 304: ind is None
IsNone(ind) == ind = NoneIdx

\* lines 300-311: ind, r = Q.get() and the three kinds of record
Receive ==
  /\ pc = "collect"
  /\ L > 0
  /\ Q # <<>>
  /\ LET rec == Head(Q) IN
       /\ Q' = Tail(Q)
       /\ IF IsException(rec)
            THEN error' = Append(error, <<rec.a, rec.b>>) /\ R' = R
            ELSE IF IsNone(rec.a)
              THEN error' = error /\ R' = R
              ELSE /\ error' = error
                   /\ R' = Append(R, <<rec.a, IF callback THEN callbackfn(rec.b) ELSE rec.b>>)
  /\ L' = L - 1
  /\ UNCHANGED <<shmdebug, timeout, np, serial, pc, len, ordered, callback, S,
                 unfinished, queues, started, wpc, wcap, wdead, i, alive, rank, out,
                 warnAlive, extra, calls, sentinels, part,
                 sort, use_threads, shm, ordinary>>

\* line 313: S.join() returns once every put has been acknowledged
JoinTaskQueue ==
  /\ pc = "collect"
  /\ L = 0
  /\ unfinished = 0
  /\ pc' = "drain"
  /\ UNCHANGED <<shmdebug, timeout, np, serial, len, ordered, callback, L, S,
                 unfinished, Q, queues, started, wpc, wcap, wdead, R, error, i, alive,
                 rank, out, warnAlive, extra, calls, sentinels, part,
                 sort, use_threads, shm, ordinary>>

\* lines 316-320: the leftover check, then i = 0, alive = 1
Drain ==
  /\ pc = "drain"
  /\ IF Q # <<>>
       THEN /\ Q' = Tail(Q)
            /\ extra' = extra + 1
            /\ UNCHANGED <<pc, i, alive>>
       ELSE /\ pc' = "join_loop"
            /\ i' = 0
            /\ alive' = 1
            /\ UNCHANGED <<Q, extra>>
  /\ UNCHANGED <<shmdebug, timeout, np, serial, len, ordered, callback, L, S,
                 unfinished, queues, started, wpc, wcap, wdead, R, error, rank, out,
                 warnAlive, calls, sentinels, part,
                 sort, use_threads, shm, ordinary>>

JoinLoopUnbounded ==
  /\ pc = "join_loop"
  /\ IF alive > 0
       THEN alive' = 0 /\ rank' = 0 /\ pc' = "join_rank"
       ELSE alive' = alive /\ rank' = rank /\ pc' = "report"
  /\ UNCHANGED <<shmdebug, timeout, np, serial, len, ordered, callback, L, S,
                 unfinished, Q, queues, started, wpc, wcap, wdead, R, error, i, out,
                 warnAlive, extra, calls, sentinels, part,
                 sort, use_threads, shm, ordinary>>

\* lines 321-322: while alive > 0 and i < __timeout__: alive = 0
JoinLoop ==
  /\ pc = "join_loop"
  /\ IF alive > 0 /\ i < timeout
       THEN alive' = 0 /\ rank' = 0 /\ pc' = "join_rank"
       ELSE alive' = alive /\ rank' = rank /\ pc' = "report"
  /\ UNCHANGED <<shmdebug, timeout, np, serial, len, ordered, callback, L, S,
                 unfinished, Q, queues, started, wpc, wcap, wdead, R, error, i, out,
                 warnAlive, extra, calls, sentinels, part,
                 sort, use_threads, shm, ordinary>>

\* lines 323-324 and 330: the next slave of the round; is it alive?
JoinRank ==
  /\ pc = "join_rank"
  /\ IF rank = np
       THEN i' = i + 1 /\ pc' = "join_loop" /\ rank' = rank
       ELSE IF wpc[rank] # "exited"
         THEN i' = i /\ pc' = "joining" /\ rank' = rank
         ELSE i' = i /\ pc' = pc /\ rank' = rank + 1
  /\ UNCHANGED <<shmdebug, timeout, np, serial, len, ordered, callback, L, S,
                 unfinished, Q, queues, started, wpc, wcap, wdead, R, error, alive,
                 out, warnAlive, extra, calls, sentinels, part,
                 sort, use_threads, shm, ordinary>>

\* lines 325-329: p.join(10) has returned; is the slave still alive?
JoinReturn ==
  /\ pc = "joining"
  /\ alive' = IF wpc[rank] # "exited" THEN alive + 1 ELSE alive
  /\ rank' = rank + 1
  /\ pc' = "join_rank"
  /\ UNCHANGED <<shmdebug, timeout, np, serial, len, ordered, callback, L, S,
                 unfinished, Q, queues, started, wpc, wcap, wdead, R, error, i, out,
                 warnAlive, extra, calls, sentinels, part,
                 sort, use_threads, shm, ordinary>>

\* lines 332-343: the warning, then the raise or the return value
Report(ord) ==
  /\ pc = "report"
  /\ ordered' = ord
  /\ warnAlive' = IF alive > 0 THEN alive ELSE warnAlive
  /\ IF error # <<>>
       THEN out' = Aggregated(error) /\ pc' = "raised"
       ELSE /\ out' = [kind |-> "array", vals |-> Assemble(ord, R),
                       count |-> 0, desc |-> NoneIdx]
            /\ pc' = "returned"
  /\ UNCHANGED <<shmdebug, timeout, np, serial, len, callback, L, S,
                 unfinished, Q, queues, started, wpc, wcap, wdead, R, error, i, alive,
                 rank, extra, calls, sentinels, part,
                 sort, use_threads, shm, ordinary>>

(***************************************************************************)
(* Pool.map_debug (lines 345-347): the list comprehension, item by item.   *)
(* The work function either returns or raises; a raise leaves the          *)
(* comprehension and map at once with the original exception.              *)
(***************************************************************************)
DebugReturnItem ==
  /\ out' = [out EXCEPT !.kind = "pending",
                        !.vals = Append(out.vals, workfunc(sequence(len)[i + 1]))]
  /\ WorkWrites(i, FALSE)
  /\ pc' = pc

DebugRaiseItem ==
  /\ out' = [kind |-> "raise_original", vals |-> <<>>, count |-> 0, desc |-> i]
  /\ pc' = "raised"
  /\ UNCHANGED <<shm, ordinary>>

map_debug(ord) ==
  /\ pc = "debug"
  /\ ordered' = ord
  /\ IF i < len
       THEN /\ DebugReturnItem \/ DebugRaiseItem
            /\ calls' = [calls EXCEPT ![i] = @ + 1]
            /\ i' = i + 1
       ELSE /\ out' = [out EXCEPT !.kind = "list"]
            /\ pc' = "returned"
            /\ UNCHANGED <<calls, i, shm, ordinary>>
  /\ UNCHANGED <<shmdebug, timeout, np, serial, len, callback, L, S,
                 unfinished, Q, queues, started, wpc, wcap, wdead, R, error, alive,
                 rank, warnAlive, extra, sentinels, part, sort, use_threads>>

(***************************************************************************)
(* Pool.map.slave (lines 249-273).                                         *)
(***************************************************************************)
SlaveGetPeek(r) ==
  /\ wpc[r] = "get"
  /\ S # <<>>
  /\ wcap' = [wcap EXCEPT ![r] = Head(S)]
  /\ sentinels' = [sentinels EXCEPT ![r] = IF Head(S) = Sentinel THEN @ + 1 ELSE @]
  /\ wpc' = [wpc EXCEPT ![r] = "run"]
  /\ UNCHANGED <<shmdebug, timeout, np, serial, pc, len, ordered, callback, L, S,
                 unfinished, Q, queues, started, wdead, R, error, i, alive, rank, out,
                 warnAlive, extra, calls, part,
                 sort, use_threads, shm, ordinary>>

SlaveGetLast(r) ==
  /\ wpc[r] = "get"
  /\ S # <<>>
  /\ wcap' = [wcap EXCEPT ![r] = S[Len(S)]]
  /\ S' = SubSeq(S, 1, Len(S) - 1)
  /\ sentinels' = [sentinels EXCEPT ![r] = IF S[Len(S)] = Sentinel THEN @ + 1 ELSE @]
  /\ wpc' = [wpc EXCEPT ![r] = "run"]
  /\ UNCHANGED <<shmdebug, timeout, np, serial, pc, len, ordered, callback, L,
                 unfinished, Q, queues, started, wdead, R, error, i, alive, rank, out,
                 warnAlive, extra, calls, part,
                 sort, use_threads, shm, ordinary>>

\* line 254: workcapsule = S.get()
SlaveGet(r) ==
  /\ wpc[r] = "get"
  /\ S # <<>>
  /\ wcap' = [wcap EXCEPT ![r] = Head(S)]
  /\ S' = Tail(S)
  /\ sentinels' = [sentinels EXCEPT ![r] = IF Head(S) = Sentinel THEN @ + 1 ELSE @]
  /\ wpc' = [wpc EXCEPT ![r] = "run"]
  /\ UNCHANGED <<shmdebug, timeout, np, serial, pc, len, ordered, callback, L,
                 unfinished, Q, queues, started, wdead, R, error, i, alive, rank, out,
                 warnAlive, extra, calls, part,
                 sort, use_threads, shm, ordinary>>

\* lines 255-257: the sentinel: S.task_done(); break
SlaveSentinel(r) ==
  /\ wpc[r] = "run"
  /\ wcap[r] = Sentinel
  /\ unfinished' = unfinished - 1
  /\ wpc' = [wpc EXCEPT ![r] = "exiting"]
  /\ UNCHANGED <<shmdebug, timeout, np, serial, pc, len, ordered, callback, L,
                 S, Q, queues, started, wcap, wdead, R, error, i, alive, rank, out,
                 warnAlive, extra, calls, sentinels, part,
                 sort, use_threads, shm, ordinary>>

SlaveDeadSilent(r) ==
  /\ wpc[r] = "run"
  /\ wcap[r] # Sentinel
  /\ wdead[r]
  /\ wpc' = [wpc EXCEPT ![r] = "ack"]
  /\ UNCHANGED <<shmdebug, timeout, np, serial, pc, len, ordered, callback, L,
                 S, unfinished, Q, queues, started, wcap, wdead, R, error, i, alive,
                 rank, out, warnAlive, extra, calls, sentinels, part,
                 sort, use_threads, shm, ordinary>>

\* lines 258-259: a dead slave: Q.put((None, None))
SlaveDead(r) ==
  /\ wpc[r] = "run"
  /\ wcap[r] # Sentinel
  /\ wdead[r]
  /\ Q' = Append(Q, Dead)
  /\ wpc' = [wpc EXCEPT ![r] = "ack"]
  /\ UNCHANGED <<shmdebug, timeout, np, serial, pc, len, ordered, callback, L,
                 S, unfinished, queues, started, wcap, wdead, R, error, i, alive, rank,
                 out, warnAlive, extra, calls, sentinels, part,
                 sort, use_threads, shm, ordinary>>

\* lines 263-266, 272: the work function returns: Q.put((i, out))
SlaveSuccess(r) ==
  /\ wpc[r] = "run"
  /\ wcap[r] # Sentinel
  /\ ~wdead[r]
  /\ LET k == wcap[r][1] IN
       /\ calls' = [calls EXCEPT ![k] = @ + 1]
       /\ Q' = Append(Q, Success(k, workfunc(sequence(len)[k + 1])))
       /\ WorkWrites(k, TRUE)
  /\ wpc' = [wpc EXCEPT ![r] = "ack"]
  /\ UNCHANGED <<shmdebug, timeout, np, serial, pc, len, ordered, callback, L,
                 S, unfinished, queues, started, wcap, wdead, R, error, i, alive, rank,
                 out, warnAlive, extra, sentinels, part, sort, use_threads>>

SlaveFailureExits(r) ==
  /\ wpc[r] = "run"
  /\ wcap[r] # Sentinel
  /\ ~wdead[r]
  /\ LET k == wcap[r][1] IN
       /\ calls' = [calls EXCEPT ![k] = @ + 1]
       /\ Q' = Append(Q, Failure(k))
  /\ wdead' = [wdead EXCEPT ![r] = TRUE]
  /\ unfinished' = unfinished - 1
  /\ wpc' = [wpc EXCEPT ![r] = "exiting"]
  /\ UNCHANGED <<shmdebug, timeout, np, serial, pc, len, ordered, callback, L,
                 S, queues, started, wcap, R, error, i, alive, rank, out,
                 warnAlive, extra, sentinels, part,
                 sort, use_threads, shm, ordinary>>

SlaveFailureNotDead(r) ==
  /\ wpc[r] = "run"
  /\ wcap[r] # Sentinel
  /\ ~wdead[r]
  /\ LET k == wcap[r][1] IN
       /\ calls' = [calls EXCEPT ![k] = @ + 1]
       /\ Q' = Append(Q, Failure(k))
  /\ wpc' = [wpc EXCEPT ![r] = "ack"]
  /\ UNCHANGED <<shmdebug, timeout, np, serial, pc, len, ordered, callback, L,
                 S, unfinished, queues, started, wcap, wdead, R, error, i, alive, rank,
                 out, warnAlive, extra, sentinels, part,
                 sort, use_threads, shm, ordinary>>

\* lines 263-270: the work function raises: Q.put(error); dead = True
SlaveFailure(r) ==
  /\ wpc[r] = "run"
  /\ wcap[r] # Sentinel
  /\ ~wdead[r]
  /\ LET k == wcap[r][1] IN
       /\ calls' = [calls EXCEPT ![k] = @ + 1]
       /\ Q' = Append(Q, Failure(k))
  /\ wdead' = [wdead EXCEPT ![r] = TRUE]
  /\ wpc' = [wpc EXCEPT ![r] = "ack"]
  /\ UNCHANGED <<shmdebug, timeout, np, serial, pc, len, ordered, callback, L,
                 S, unfinished, queues, started, wcap, R, error, i, alive, rank, out,
                 warnAlive, extra, sentinels, part,
                 sort, use_threads, shm, ordinary>>

\* lines 260-261, 273: S.task_done(), and back to S.get()
SlaveTaskDone(r) ==
  /\ wpc[r] = "ack"
  /\ unfinished' = unfinished - 1
  /\ wpc' = [wpc EXCEPT ![r] = "get"]
  /\ UNCHANGED <<shmdebug, timeout, np, serial, pc, len, ordered, callback, L,
                 S, Q, queues, started, wcap, wdead, R, error, i, alive, rank, out,
                 warnAlive, extra, calls, sentinels, part,
                 sort, use_threads, shm, ordinary>>

\* the slave function has returned: the thread or process ends
SlaveExit(r) ==
  /\ wpc[r] = "exiting"
  /\ wpc' = [wpc EXCEPT ![r] = "exited"]
  /\ UNCHANGED <<shmdebug, timeout, np, serial, pc, len, ordered, callback, L,
                 S, unfinished, Q, queues, started, wcap, wdead, R, error, i, alive,
                 rank, out, warnAlive, extra, calls, sentinels, part,
                 sort, use_threads, shm, ordinary>>

Slave(r) ==
  \/ SlaveGet(r)
  \/ SlaveSentinel(r)
  \/ SlaveDead(r)
  \/ SlaveSuccess(r)
  \/ SlaveFailure(r)
  \/ SlaveTaskDone(r)
  \/ SlaveExit(r)

Master ==
  \/ PutItem
  \/ PutSentinel
  \/ StartSlave
  \/ Receive
  \/ JoinTaskQueue
  \/ Drain
  \/ JoinLoop
  \/ JoinRank
  \/ JoinReturn
  \/ \E ord \in BOOLEAN : Report(ord)
  \/ \E ord \in BOOLEAN : map_debug(ord)

Configure ==
  \/ \E flag \in BOOLEAN : set_debug(flag)
  \/ \E t \in 0 .. MaxTimeout : set_timeout(t)

Call == \E n \in 0 .. MaxL, cb \in BOOLEAN : MapCall(n, cb)

Next ==
  \/ Configure
  \/ Call
  \/ Master
  \/ \E r \in Ranks : Slave(r)

Spec == Init /\ [][Next]_vars

(***************************************************************************)
(* The partitioner: array_split, split, zipsplit, Pool.split and           *)
(* Pool.zipsplit.  Arrays are one-dimensional (axis 0).  An argument is a  *)
(* record [kind, val]: an array with its elements, or a scalar or a tuple  *)
(* with its components.                                                    *)
(***************************************************************************)
Array(n) == [kind |-> "array", val |-> [k \in 1 .. n |-> k]]
Scalar == [kind |-> "scalar", val |-> <<7>>]
Tuple == [kind |-> "tuple", val |-> <<8, 9>>]

RECURSIVE cumsum(_, _)
\* numpy's cumsum: the sum of the first k entries of s
cumsum(s, k) == IF k = 0 THEN 0 ELSE s[k] + cumsum(s, k - 1)

\* k * [x]
Times(k, x) == [j \in 1 .. k |-> x]

section_sizes_extras_last(Ntotal, Nsections) ==
  LET Neach_section == Ntotal \div Nsections
      extras == Ntotal % Nsections
  IN <<0>> \o Times(Nsections - extras, Neach_section)
           \o Times(extras, Neach_section + 1)

\* lines 654-657: divmod, then the section sizes
section_sizes(Ntotal, Nsections) ==
  LET Neach_section == Ntotal \div Nsections
      extras == Ntotal % Nsections
  IN <<0>> \o Times(extras, Neach_section + 1)
           \o Times(Nsections - extras, Neach_section)

\* line 658: div_points = numpy.array(section_sizes).cumsum()
div_points(Ntotal, Nsections) ==
  LET sizes == section_sizes(Ntotal, Nsections)
  IN [k \in 1 .. Len(sizes) |-> cumsum(sizes, k)]

\* lines 643-666, for a number of sections >= 1: sary[st:end] for every section
array_split(ary, Nsections) ==
  LET dp == div_points(Len(ary), Nsections)
  IN [k \in 1 .. Nsections |-> SubSeq(ary, dp[k] + 1, dp[k + 1])]

Ok(v) == [status |-> "ok", val |-> v]
Raise(e) == [status |-> e, val |-> <<>>]

\* line 447: isinstance(item, tuple) or numpy.isscalar(item)
IsBroadcast(item) == item.kind \in {"tuple", "scalar"}

\* line 454: the lengths of the items to chop
Lengths(list) ==
  LET arrays == SelectSeq(list, LAMBDA item : ~IsBroadcast(item))
  IN [k \in 1 .. Len(arrays) |-> Len(arrays[k].val)]

DiffAnyIncreasing(Ls) == \E k \in 1 .. (Len(Ls) - 1) : Ls[k + 1] - Ls[k] > 0

\* line 455: numpy.diff(L).any()
DiffAny(Ls) == \E k \in 1 .. (Len(Ls) - 1) : Ls[k + 1] - Ls[k] # 0

\* line 461: nchunks = cpu_count() * 2
SplitDefault(cpu) == cpu * 2

\* lines 459-464: the number of chunks

ChunksForNoMinimum(Lh, nchunks, chunksize, cpu) ==
  IF nchunks = NoneIdx
    THEN IF chunksize = NoneIdx
           THEN SplitDefault(cpu)
           ELSE Lh \div chunksize
    ELSE nchunks

ChunksFor(Lh, nchunks, chunksize, cpu) ==
  IF nchunks = NoneIdx
    THEN IF chunksize = NoneIdx
           THEN SplitDefault(cpu)
           ELSE IF Lh \div chunksize = 0 THEN 1 ELSE Lh \div chunksize
    ELSE nchunks

\* lines 466-474: one entry per item: repeat(item), or the chunks of an array
SplitEntry(item, n) ==
  IF IsBroadcast(item)
    THEN [kind |-> "repeat", items |-> <<item>>]
    ELSE [kind |-> "chunks",
          items |-> LET chunks == array_split(item.val, n)
                    IN [k \in 1 .. n |-> [kind |-> "array", val |-> chunks[k]]]]

\* lines 436-474
split(list, nchunks, chunksize, cpu) ==
  LET Ls == Lengths(list) IN
    IF Len(Ls) > 0 /\ DiffAny(Ls) THEN Raise("ValueError: different lengths")
    ELSE IF Len(Ls) = 0 THEN Raise("IndexError")
    ELSE LET n == ChunksFor(Ls[1], nchunks, chunksize, cpu) IN
      IF n <= 0 THEN Raise("ValueError: number sections")
      ELSE Ok([k \in 1 .. Len(list) |-> SplitEntry(list[k], n)])

\* lines 222-225
PoolDefault(poolnp) == poolnp

Pool_split(poolnp, list, nchunks, chunksize, cpu) ==
  IF nchunks = NoneIdx /\ chunksize = NoneIdx
    THEN split(list, PoolDefault(poolnp), chunksize, cpu)
    ELSE split(list, nchunks, chunksize, cpu)

\* listtools.zip over the entries of a split: as long as the shortest entry,
\* a repeat entry giving its item at every position
Zip(entries) ==
  LET finite == {k \in 1 .. Len(entries) : entries[k].kind = "chunks"}
      n == IF finite = {} THEN 0
           ELSE CHOOSE m \in {Len(entries[k].items) : k \in finite} :
                  \A k \in finite : m <= Len(entries[k].items)
  IN [t \in 1 .. n |->
       [j \in 1 .. Len(entries) |->
          IF entries[j].kind = "repeat" THEN entries[j].items[1]
          ELSE entries[j].items[t]]]

\* lines 219-220
Pool_zipsplit(poolnp, list, nchunks, chunksize, cpu) ==
  LET r == Pool_split(poolnp, list, nchunks, chunksize, cpu)
  IN IF r.status = "ok" THEN Ok(Zip(r.val)) ELSE r

\* lines 433-434: the module-level function evaluates self.split, and the
\* module has no name self
zipsplit(list, nchunks, chunksize, cpu) == Raise("NameError")

(***************************************************************************)
(* The partitioner's calls.  part holds the arguments of one call, then    *)
(* the function called and what it gave back.                              *)
(***************************************************************************)
Args == {Array(n) : n \in 0 .. MaxLen} \cup {Scalar, Tuple}

Bundles == UNION {[1 .. m -> Args] : m \in 0 .. MaxArgs}

PartArgs ==
  [phase : {"args"}, fn : {"none"}, list : Bundles,
   nchunks : {NoneIdx} \cup (0 .. MaxChunks),
   chunksize : {NoneIdx} \cup (1 .. MaxLen),
   cpu : 1 .. MaxNP, status : {"none"}, val : {<<>>}]

Done(fn, r) ==
  part' = [part EXCEPT !.phase = "done", !.fn = fn, !.status = r.status, !.val = r.val]

CallArraySplit ==
  /\ part.phase = "args"
  /\ Len(part.list) = 1
  /\ part.list[1].kind = "array"
  /\ part.nchunks >= 1
  /\ Done("array_split", Ok(array_split(part.list[1].val, part.nchunks)))
  /\ UNCHANGED <<poolvars, sort>>

CallSplit ==
  /\ part.phase = "args"
  /\ Done("split", split(part.list, part.nchunks, part.chunksize, part.cpu))
  /\ UNCHANGED <<poolvars, sort>>

CallPoolSplit ==
  /\ part.phase = "args"
  /\ Done("Pool.split", Pool_split(np, part.list, part.nchunks, part.chunksize, part.cpu))
  /\ UNCHANGED <<poolvars, sort>>

CallZipsplit ==
  /\ part.phase = "args"
  /\ Done("zipsplit", zipsplit(part.list, part.nchunks, part.chunksize, part.cpu))
  /\ UNCHANGED <<poolvars, sort>>

CallPoolZipsplit ==
  /\ part.phase = "args"
  /\ Done("Pool.zipsplit",
          Pool_zipsplit(np, part.list, part.nchunks, part.chunksize, part.cpu))
  /\ UNCHANGED <<poolvars, sort>>

SplitInit == PoolInit /\ ~use_threads /\ part \in PartArgs /\ sort = SortIdle

SplitNext ==
  \/ CallArraySplit
  \/ CallSplit
  \/ CallPoolSplit
  \/ CallZipsplit
  \/ CallPoolZipsplit

SplitSpec == SplitInit /\ [][SplitNext]_vars

(***************************************************************************)
(* argsort (lines 529-586).  Keys are 0 and 1 (the order argument, which   *)
(* only changes the dtype the keys are compared by, is left out).  Index   *)
(* buffers hold 0-based indices as in the source; position j+1 of a        *)
(* sequence is element j of the array.                                     *)
(*                                                                         *)
(* Each pool.starmap of argsort is a Pool.map over its task list on a      *)
(* thread Pool of cpu_count() slaves: the tasks leave the FIFO task queue  *)
(* in index order, at most cpu_count() of them are held by slaves at a     *)
(* time, those run in any order, each once, and starmap returns when all   *)
(* have run.  sort.next is the next task to be dequeued and sort.inflight  *)
(* the tasks dequeued and not yet run.                                     *)
(***************************************************************************)
Keys == {0, 1}

\* numpy.empty: a cell nothing was written to
Uninit == NoneIdx

RECURSIVE BitAnd(_, _)
\* Python's a & b on non-negative integers
BitAnd(a, b) ==
  IF a = 0 \/ b = 0 THEN 0
  ELSE (IF a % 2 = 1 /\ b % 2 = 1 THEN 1 ELSE 0) + 2 * BitAnd(a \div 2, b \div 2)

RECURSIVE BitOr(_, _)
\* Python's a | b on non-negative integers
BitOr(a, b) ==
  IF a = 0 THEN b
  ELSE IF b = 0 THEN a
  ELSE (IF a % 2 = 1 \/ b % 2 = 1 THEN 1 ELSE 0) + 2 * BitOr(a \div 2, b \div 2)

RECURSIVE ShiftRight(_, _)
\* Python's a >> k on a non-negative integer
ShiftRight(a, k) == IF k = 0 \/ a = 0 THEN a ELSE ShiftRight(a \div 2, k - 1)

round_to_power_of_two_identity(n) == n

\* lines 517-527: __round_to_power_of_two
round_to_power_of_two(n) ==
  IF n = 0 THEN n
  ELSE IF BitAnd(n, n - 1) = 0 THEN n
  ELSE LET i0 == n - 1
           i1 == BitOr(i0, ShiftRight(i0, 1))
           i2 == BitOr(i1, ShiftRight(i1, 2))
           i3 == BitOr(i2, ShiftRight(i2, 4))
           i4 == BitOr(i3, ShiftRight(i3, 8))
           i5 == BitOr(i4, ShiftRight(i4, 16))
           i6 == BitOr(i5, ShiftRight(i5, 32))
       IN i6 + 1

\* line 558: nchunks = __round_to_power_of_two(cpu_count()) * 4
SortChunks(cpu) == round_to_power_of_two(cpu) * 4

\* p is a permutation of 0 .. Len(p)-1
IsPermutation(p) ==
  /\ \A j \in 1 .. Len(p) : p[j] \in 0 .. (Len(p) - 1)
  /\ \A j, k \in 1 .. Len(p) : j # k => p[j] # p[k]

\* keys[p] is non-decreasing
SortsKeys(keys, p) ==
  \A j \in 1 .. (Len(p) - 1) : keys[p[j] + 1] <= keys[p[j + 1] + 1]

ArgsortsIdentity(keys) == {[j \in 1 .. Len(keys) |-> j - 1]}

\* ndarray.argsort() with numpy's default kind, quicksort, which is not
\* stable: some permutation that sorts the keys, equal keys in any order
Argsorts(keys) ==
  {p \in [1 .. Len(keys) -> 0 .. (Len(keys) - 1)] : IsPermutation(p) /\ SortsKeys(keys, p)}

\* lines 562-563: the lengths of numpy.array_split(data, nchunks)
SortLengths(n, nchunks) == Tail(section_sizes(n, nchunks))

\* lines 564-565: suboffsets[1:] = sublengths.cumsum()[:-1]
SortOffsets(lengths) ==
  [k \in 1 .. Len(lengths) |-> IF k = 1 THEN 0 ELSE cumsum(lengths, k - 1)]

\* a[start:start+count] and its assignment
Slice(a, start, count) == SubSeq(a, start + 1, start + count)

SetSlice(a, start, new) ==
  [j \in 1 .. Len(a) |->
     IF j > start /\ j <= start + Len(new) THEN new[j - start] ELSE a[j]]

RECURSIVE MergeFrom(_, _, _, _, _)
\* the two-pointer merge from positions a of A and b of B
MergeFrom(data, A, B, a, b) ==
  IF a > Len(A) /\ b > Len(B) THEN <<>>
  ELSE IF b > Len(B) THEN <<A[a]>> \o MergeFrom(data, A, B, a + 1, b)
  ELSE IF a > Len(A) THEN <<B[b] + Len(A)>> \o MergeFrom(data, A, B, a, b + 1)
  ELSE IF data[A[a] + 1] <= data[Len(A) + B[b] + 1]
    THEN <<A[a]>> \o MergeFrom(data, A, B, a + 1, b)
    ELSE <<B[b] + Len(A)>> \o MergeFrom(data, A, B, a, b + 1)

\* _mergesort.merge(data, A, B, out): what it writes to out.  The keys it
\* is handed are data[off1:off1+len1+len2], the keys of the two runs one
\* after the other; the indices of a run count from the start of the run,
\* and those of the merged run from the start of A.  Equal keys: A first.
merge(data, A, B) == MergeFrom(data, A, B, 1, 1)

\* the array of length n that repeats a pattern of keys
Periodic(pat, n) == [j \in 1 .. n |-> pat[((j - 1) % Len(pat)) + 1]]

\* the arrays handed to argsort: every array of keys up to MaxSerialLen
\* long, and every pattern of SortPeriod keys repeated to every length up
\* to MaxSortLen
SortData ==
  UNION {[1 .. n -> Keys] : n \in 0 .. MaxSerialLen} \cup
  {Periodic(pat, n) : pat \in [1 .. SortPeriod -> Keys], n \in 0 .. MaxSortLen}

\* the state of an argsort call that has its arguments and has not begun
SortArg(d, c) ==
  [phase |-> "args", data |-> d, cpu |-> c, nchunks |-> 0,
   sublengths |-> <<>>, suboffsets |-> <<>>,
   buf |-> [A |-> <<>>, B |-> <<>>], arg1 |-> "A", arg2 |-> "none",
   next |-> 0, inflight |-> {}, round |-> 0, written |-> "none",
   result |-> <<>>]

SortArgs ==
  {SortArg(d, c) : d \in SortData, c \in 2 .. MaxCpu} \cup
  {SortArg(d, 1) : d \in {x \in SortData : Len(x) <= MaxSerialLen}}

\* the buffers the names arg1 and arg2 are bound to
Arg1 == sort.buf[sort.arg1]

Arg2 == sort.buf[sort.arg2]

\* the number of tasks of the running starmap
SortTasks ==
  IF sort.phase = "local" THEN sort.nchunks ELSE Len(sort.sublengths) \div 2

\* line 556: cpu_count() <= 1: return data.argsort()
SortSerial ==
  /\ sort.phase = "args"
  /\ sort.cpu <= 1
  /\ \E p \in Argsorts(sort.data) :
       sort' = [sort EXCEPT !.phase = "done", !.result = p]
  /\ UNCHANGED <<poolvars, part>>

\* lines 558-567: nchunks, arg1, the chunks, their lengths and offsets
SortBegin ==
  /\ sort.phase = "args"
  /\ sort.cpu > 1
  /\ LET n == SortChunks(sort.cpu)
         lengths == SortLengths(Len(sort.data), n)
     IN sort' = [sort EXCEPT !.phase = "local",
                             !.nchunks = n,
                             !.sublengths = lengths,
                             !.suboffsets = SortOffsets(lengths),
                             !.buf.A = [j \in 1 .. Len(sort.data) |-> Uninit],
                             !.next = 0,
                             !.inflight = {}]
  /\ UNCHANGED <<poolvars, part>>

\* Pool.map.slave, line 254: a slave takes the next task of the starmap
SortTaskGet ==
  /\ sort.phase \in {"local", "merge"}
  /\ sort.next < SortTasks
  /\ Cardinality(sort.inflight) < sort.cpu
  /\ sort' = [sort EXCEPT !.inflight = @ \cup {sort.next}, !.next = @ + 1]
  /\ UNCHANGED <<poolvars, part>>

LocalSortOffset(k) ==
  /\ sort.phase = "local"
  /\ k \in sort.inflight
  /\ LET off == sort.suboffsets[k + 1]
         chunk == Slice(sort.data, off, sort.sublengths[k + 1])
     IN \E p \in Argsorts(chunk) :
          sort' = [sort EXCEPT
                     !.buf[sort.arg1] =
                        SetSlice(@, off, [j \in 1 .. Len(p) |-> p[j] + off]),
                     !.inflight = @ \ {k}]
  /\ UNCHANGED <<poolvars, part>>

\* lines 570-571: work(data, arg) on chunk k: arg[:] = data.argsort()
LocalSort(k) ==
  /\ sort.phase = "local"
  /\ k \in sort.inflight
  /\ LET off == sort.suboffsets[k + 1]
         chunk == Slice(sort.data, off, sort.sublengths[k + 1])
     IN \E p \in Argsorts(chunk) :
          sort' = [sort EXCEPT !.buf[sort.arg1] = SetSlice(@, off, p),
                               !.inflight = @ \ {k}]
  /\ UNCHANGED <<poolvars, part>>

\* lines 572-574: the starmap of phase 1 returns; arg2 = numpy.empty(...)
SortEndLocal ==
  /\ sort.phase = "local"
  /\ sort.next = SortTasks
  /\ sort.inflight = {}
  /\ sort' = [sort EXCEPT !.phase = "merge",
                          !.arg2 = "B",
                          !.buf.B = [j \in 1 .. Len(sort.data) |-> Uninit],
                          !.next = 0]
  /\ UNCHANGED <<poolvars, part>>

\* lines 576-577, 581: work(off1, len1, off2, len2, arg1, arg2, data) on the
\* runs 2t and 2t+1
MergeTask(t) ==
  /\ sort.phase = "merge"
  /\ t \in sort.inflight
  /\ LET off1 == sort.suboffsets[2 * t + 1]
         len1 == sort.sublengths[2 * t + 1]
         off2 == sort.suboffsets[2 * t + 2]
         len2 == sort.sublengths[2 * t + 2]
         merged == merge(Slice(sort.data, off1, len1 + len2),
                         Slice(Arg1, off1, len1), Slice(Arg1, off2, len2))
     IN sort' = [sort EXCEPT !.buf[sort.arg2] = SetSlice(@, off1, merged),
                             !.written = sort.arg2,
                             !.inflight = @ \ {t}]
  /\ UNCHANGED <<poolvars, part>>

EvenEntriesShifted(q) == [k \in 1 .. (Len(q) \div 2) |-> q[2 * k]]

\* suboffsets[::2]
EvenEntries(q) == [k \in 1 .. ((Len(q) + 1) \div 2) |-> q[2 * k - 1]]

\* [x+y for x,y in zip(sublengths[::2], sublengths[1::2])]
PairSums(q) == [k \in 1 .. (Len(q) \div 2) |-> q[2 * k - 1] + q[2 * k]]

\* lines 579-586: the starmap of a round returns; arg1, arg2 = arg2, arg1;
\* the runs of the next round; the loop test; return arg1
SortEndRound ==
  /\ sort.phase = "merge"
  /\ sort.next = SortTasks
  /\ sort.inflight = {}
  /\ LET lengths == PairSums(sort.sublengths)
     IN sort' = [sort EXCEPT
                   !.arg1 = sort.arg2,
                   !.arg2 = sort.arg1,
                   !.suboffsets = EvenEntries(sort.suboffsets),
                   !.sublengths = lengths,
                   !.round = @ + 1,
                   !.next = 0,
                   !.phase = IF Len(lengths) > 1 THEN "merge" ELSE "done",
                   !.result = IF Len(lengths) > 1 THEN @ ELSE sort.buf[sort.arg2]]
  /\ UNCHANGED <<poolvars, part>>

\* argsort makes its own Pools (lines 569, 580); no Pool of the caller takes
\* part, and the one of PoolInit is held fixed
SortInit == PoolInit /\ np = 1 /\ ~use_threads /\ part = PartIdle /\ sort \in SortArgs

SortNext ==
  \/ SortSerial
  \/ SortBegin
  \/ SortTaskGet
  \/ \E k \in 0 .. (SortChunks(MaxCpu) - 1) : LocalSort(k)
  \/ SortEndLocal
  \/ \E t \in 0 .. (SortChunks(MaxCpu) - 1) : MergeTask(t)
  \/ SortEndRound

SortSpec == SortInit /\ [][SortNext]_vars

(***************************************************************************)
(* The pool under fair scheduling: the master keeps running and every      *)
(* started slave keeps running (the operating system schedules every       *)
(* thread and process, and a work function invocation returns or raises    *)
(* within its step).  The same actions as Spec, with bounds of their own on *)
(* the call.                                                               *)
(***************************************************************************)
FairInit == Init /\ np <= FairMaxNP

FairCall == \E n \in 0 .. FairMaxL, cb \in BOOLEAN : MapCall(n, cb)

FairNext ==
  \/ Configure
  \/ FairCall
  \/ Master
  \/ \E r \in Ranks : Slave(r)

FairSpec ==
  /\ FairInit
  /\ [][FairNext]_vars
  /\ WF_vars(Master)
  /\ \A r \in 0 .. (MaxNP - 1) : WF_vars(Slave(r))

(***************************************************************************)
(* The pool with both backends and an external interrupt (SIGINT).  While  *)
(* the slaves are created and started SIGINT is ignored (lines 286-293);   *)
(* line 295 restores the handler, and from then on an interrupt raises     *)
(* KeyboardInterrupt in the master.  Lines 298-313 have no handler for it, *)
(* so it leaves Pool.map from wherever the master is collecting.  A slave  *)
(* process inherits the ignored signal and a slave thread is never         *)
(* delivered a signal: the slaves run on.                                  *)
(***************************************************************************)
InterruptThenShutdown ==
  /\ pc = "collect"
  /\ pc' = "drain"
  /\ UNCHANGED <<shmdebug, timeout, np, serial, len, ordered, callback, L, S,
                 unfinished, Q, queues, started, wpc, wcap, wdead, R, error, i, alive,
                 rank, out, warnAlive, extra, calls, sentinels, part,
                 sort, use_threads, shm, ordinary>>

\* lines 295-313: KeyboardInterrupt in Q.get() or S.join() propagates
Interrupt ==
  /\ pc = "collect"
  /\ pc' = "interrupted"
  /\ out' = [kind |-> "KeyboardInterrupt", vals |-> <<>>, count |-> 0, desc |-> NoneIdx]
  /\ UNCHANGED <<shmdebug, timeout, np, serial, len, ordered, callback, L, S,
                 unfinished, Q, queues, started, wpc, wcap, wdead, R, error, i, alive,
                 rank, warnAlive, extra, calls, sentinels, part,
                 sort, use_threads, shm, ordinary>>

BackendInit == PoolInit /\ np <= BackMaxNP /\ part = PartIdle /\ sort = SortIdle

BackendCall == \E n \in 0 .. BackMaxL, cb \in BOOLEAN : MapCall(n, cb)

BackendNext ==
  \/ Configure
  \/ BackendCall
  \/ Master
  \/ Interrupt
  \/ \E r \in Ranks : Slave(r)

BackendSpec == BackendInit /\ [][BackendNext]_vars

(***************************************************************************)
(* Properties of Pool.map.                                                 *)
(***************************************************************************)
Terminal == pc \in {"returned", "raised"}

\* some work function invocation of the running parallel call has raised
SomeRaised == \E r \in Ranks : wdead[r]

\* what position k of an ordered result must hold
Expected(k) ==
  IF callback THEN callbackfn(workfunc(sequence(len)[k + 1]))
  ELSE workfunc(sequence(len)[k + 1])

\* the indices of R are 0 .. len-1, each exactly once
EachIndexOnce ==
  \A k \in 0 .. (len - 1) : Cardinality({j \in 1 .. Len(R) : R[j][1] = k}) = 1

\* C1: a parallel map call in which no work function raises returns, for
\* either value of ordered and any interleaving, exactly len results, one
\* per input item, none lost and none duplicated.
C1_Completeness ==
  (queues /\ Terminal /\ ~SomeRaised) =>
     /\ pc = "returned"
     /\ out.kind = "array"
     /\ Len(out.vals) = len
     /\ Len(R) = len
     /\ EachIndexOnce

\* C1 witness: a full-length call on the largest pool has returned its
\* results unordered although the first record received was not item 0.
C1_Witness ==
  /\ queues /\ pc = "returned" /\ ~ordered
  /\ len = MaxL /\ np = MaxNP
  /\ R[1][1] # 0
  /\ Len(out.vals) = MaxL

\* C2: after a parallel map without a raise, ordered=True puts at every
\* position k the (callback-processed) value of the work function on
\* sequence[k]; ordered=False returns the same values, one per index, in
\* the order in which the master received the records.
C2_Ordering ==
  (queues /\ pc = "returned") =>
     /\ Len(out.vals) = len
     /\ ordered => \A k \in 0 .. (len - 1) : out.vals[k + 1] = Expected(k)
     /\ ~ordered =>
          /\ EachIndexOnce
          /\ \A j \in 1 .. Len(R) : out.vals[j] = Expected(R[j][1])

\* C2 witness: an ordered call with a callback returned although the
\* records arrived in another order than the indices.
C2_Witness ==
  /\ queues /\ pc = "returned" /\ ordered /\ callback
  /\ len = MaxL
  /\ \E j \in 1 .. (Len(R) - 1) : R[j][1] > R[j + 1][1]

\* work items still in the task queue
ItemsInS == Cardinality({k \in 1 .. Len(S) : S[k] # Sentinel})

\* work items a slave has dequeued and not yet answered
ItemsHeld == Cardinality({r \in Ranks : wpc[r] = "run" /\ wcap[r] # Sentinel})

\* work items put on the task queue so far
ItemsPut == IF pc = "put_items" THEN i ELSE len

\* records put on the result queue so far: those still queued, those the
\* master received and those its leftover check removed
RecordsPut == Len(Q) + (len - L) + extra

\* C3: the slaves put exactly one record per dequeued work item and none
\* for a sentinel, also when work functions raise; so the records still to
\* receive are always queued or still to be produced, and once the task
\* queue is joined len records were put in all and the result queue is
\* empty at the leftover check and after it.
C3_RecordAccounting ==
  queues =>
     /\ RecordsPut = ItemsPut - ItemsInS - ItemsHeld
     /\ pc \in {"drain", "join_loop", "join_rank", "joining", "report",
                "returned", "raised"} =>
          (Q = <<>> /\ extra = 0 /\ RecordsPut = len /\ L = 0)

\* C3 witness: a call ended in which a slave failed and then answered a
\* later item with a Dead record.
C3_Witness ==
  /\ queues /\ pc = "raised"
  /\ len = MaxL
  /\ Len(error) = 1
  /\ Len(R) + Len(error) < len

\* the join loop is over: line 321's condition is false
JoinAttemptsDone == ~(alive > 0 /\ i < timeout)

\* C4: if a work function raised during a parallel map, map raises one
\* aggregated error and returns nothing, after all len records were
\* received, the task queue joined and the join attempts finished; the
\* error names the number of Failure records (one per failed slave) and the
\* description of the Failure record received first.
C4_FailurePropagation ==
  /\ (queues /\ Terminal /\ SomeRaised) =>
        /\ pc = "raised"
        /\ out.kind = "raise"
        /\ out.vals = <<>>
        /\ out.count = Cardinality({r \in Ranks : wdead[r]})
        /\ out.count = Len(error)
        /\ out.desc = error[1][2]
  /\ (queues /\ pc = "raised") =>
        /\ SomeRaised
        /\ L = 0
        /\ unfinished = 0
        /\ Q = <<>>
        /\ JoinAttemptsDone

\* C4 witness: two slaves failed, and the failure received first is the one
\* of the later item.
C4_Witness ==
  /\ queues /\ pc = "raised"
  /\ Len(error) = 2
  /\ error[1][2] > error[2][2]
  /\ out.count = 2
  /\ out.desc = error[1][2]

\* every slave has dequeued exactly one sentinel and has exited
SlavesGone == \A r \in Ranks : wpc[r] = "exited" /\ sentinels[r] = 1

\* C5: under fair scheduling every map call ends by returning or raising,
\* and in a parallel call every slave dequeues exactly one sentinel and
\* exits and the task queue is joined, also when slaves have failed.
C5_Termination ==
  (pc # "idle") ~> (Terminal /\ (queues => (SlavesGone /\ unfinished = 0 /\ S = <<>>)))

\* C5 witness: a call on the largest pool has raised, a slave had failed,
\* and every slave has taken its sentinel and exited.
C5_Witness ==
  /\ queues /\ pc = "raised" /\ np = FairMaxNP /\ len = FairMaxL
  /\ SomeRaised
  /\ SlavesGone

\* C6: a call made with the debug flag set runs the items serially in input
\* order in the caller, creates no queue and starts no slave; a raise ends
\* the call at the first failing item with the original error, no later
\* item having been run.
C6_DebugMode ==
  (pc # "idle" /\ shmdebug) =>
     /\ ~queues /\ started = 0 /\ S = <<>> /\ Q = <<>>
     /\ \A r \in 0 .. (MaxNP - 1) : wpc[r] = "new"
     /\ \A k \in 0 .. (MaxL - 1) : calls[k] = IF k < i THEN 1 ELSE 0
     /\ pc = "raised" =>
          (out.kind = "raise_original" /\ out.desc = i - 1 /\ out.vals = <<>>)
     /\ pc # "raised" =>
          (Len(out.vals) = i /\
           \A k \in 0 .. (i - 1) : out.vals[k + 1] = workfunc(sequence(len)[k + 1]))
     /\ pc = "returned" => (out.kind = "list" /\ i = len)

\* C6 witness: with the debug flag set on a pool that is not serial, the
\* second of three items raised.
C6_Witness ==
  /\ shmdebug /\ ~serial /\ pc = "raised"
  /\ len = 3 /\ out.desc = 1
  /\ calls[0] = 1 /\ calls[1] = 1 /\ calls[2] = 0

\* C7: the master makes at most __timeout__ rounds of bounded joins; a
\* slave still alive after the last round only makes it log the warning and
\* go on to the result assembly: map raises only for a received Failure.
C7_BoundedRetry ==
  queues =>
     /\ pc \in {"join_loop", "join_rank", "joining", "report", "returned",
                "raised"} => i <= timeout
     /\ pc \in {"join_rank", "joining"} => i < timeout
     /\ pc = "raised" => error # <<>>
     /\ (Terminal /\ error = <<>>) => (pc = "returned" /\ Len(out.vals) = len)
     /\ (Terminal /\ alive > 0) => warnAlive = alive
     /\ (Terminal /\ \E r \in Ranks : wpc[r] # "exited") => warnAlive >= 1

\* C7 witness: the master returned the results after the last round with a
\* slave still alive, having logged the warning.
C7_Witness ==
  /\ queues /\ pc = "returned"
  /\ timeout = MaxTimeout /\ i = timeout
  /\ \E r \in Ranks : wpc[r] = "exiting"
  /\ warnAlive >= 1
  /\ Len(out.vals) = len /\ len = MaxL

(***************************************************************************)
(* Properties of the partitioner.                                          *)
(***************************************************************************)
PartDone == part.phase = "done"

RECURSIVE Flatten(_)
\* the concatenation of a list of chunks
Flatten(chunks) ==
  IF chunks = <<>> THEN <<>> ELSE Head(chunks) \o Flatten(Tail(chunks))

\* the size and the start of chunk k (from 1) of n chunks of a length
ChunkSize(length, n, k) == (length \div n) + (IF k <= length % n THEN 1 ELSE 0)

ChunkStart(length, n, k) ==
  (k - 1) * (length \div n) + (IF k - 1 <= length % n THEN k - 1 ELSE length % n)

\* chunks is the balanced partition of orig into n contiguous chunks
Balanced(orig, chunks, n) ==
  /\ Len(chunks) = n
  /\ \A k \in 1 .. n :
       /\ Len(chunks[k]) = ChunkSize(Len(orig), n, k)
       /\ chunks[k] = SubSeq(orig, ChunkStart(Len(orig), n, k) + 1,
                             ChunkStart(Len(orig), n, k) + Len(chunks[k]))
       /\ k > Len(orig) => chunks[k] = <<>>
  /\ Flatten(chunks) = orig

\* the arguments of the call that are arrays
ArrayArgs == {k \in 1 .. Len(part.list) : part.list[k].kind = "array"}

\* the call has a sliceable argument and its sliceable arguments agree in length
Sliceable ==
  /\ ArrayArgs # {}
  /\ \A j, k \in ArrayArgs : Len(part.list[j].val) = Len(part.list[k].val)

\* the length the sliceable arguments share
SharedLength == Len(part.list[CHOOSE k \in ArrayArgs : TRUE].val)

\* the chunks a split gave for argument k, as plain sequences
ChunksOf(k) == [j \in 1 .. Len(part.val[k].items) |-> part.val[k].items[j].val]

\* C8: splitting an array of length L into n >= 1 chunks gives exactly n
\* contiguous chunks in order, the first L mod n of size L div n + 1 and the
\* rest of size L div n, whose concatenation is the array; with n > L the
\* trailing chunks are there and empty.
C8_PartitionBalance ==
  /\ (PartDone /\ part.fn = "array_split") =>
        (part.status = "ok" /\ Balanced(part.list[1].val, part.val, part.nchunks))
  /\ (PartDone /\ part.fn \in {"split", "Pool.split"} /\ Sliceable /\ part.nchunks >= 1) =>
        /\ part.status = "ok"
        /\ \A k \in ArrayArgs :
             /\ part.val[k].kind = "chunks"
             /\ Balanced(part.list[k].val, ChunksOf(k), part.nchunks)

\* C8 witness: an array of length 4 was split into 3 chunks of sizes 2, 1, 1.
C8_Witness ==
  /\ PartDone /\ part.fn = "array_split"
  /\ part.list = <<Array(4)>> /\ part.nchunks = 3
  /\ part.val = << <<1, 2>>, <<3>>, <<4>> >>

\* the number of chunks the code is meant to use for the call
IntendedChunks(default) ==
  IF part.nchunks # NoneIdx THEN part.nchunks
  ELSE IF part.chunksize # NoneIdx
    THEN (IF SharedLength \div part.chunksize >= 1
            THEN SharedLength \div part.chunksize ELSE 1)
    ELSE default

\* the default number of chunks each function uses in the code
CodeDefault == IF part.fn \in {"Pool.split", "Pool.zipsplit"} THEN np ELSE 2 * part.cpu

\* task tuple t of a zipsplit holds chunk t of every array and every
\* broadcast argument unchanged
Aligned(tasks, n) ==
  /\ Len(tasks) = n
  /\ \A t \in 1 .. n :
       /\ Len(tasks[t]) = Len(part.list)
       /\ \A j \in 1 .. Len(part.list) :
            IF part.list[j].kind = "array"
              THEN /\ tasks[t][j].kind = "array"
                   /\ Len(tasks[t][j].val) = ChunkSize(SharedLength, n, t)
                   /\ tasks[t][j].val =
                        SubSeq(part.list[j].val, ChunkStart(SharedLength, n, t) + 1,
                               ChunkStart(SharedLength, n, t) + ChunkSize(SharedLength, n, t))
              ELSE tasks[t][j] = part.list[j]

\* every broadcast argument of a split is one repeated, undivided item
Broadcast ==
  \A j \in 1 .. Len(part.list) :
    part.list[j].kind # "array" =>
       (part.val[j].kind = "repeat" /\ part.val[j].items = <<part.list[j]>>)

\* C9: split never divides a scalar or tuple argument; zipsplit of a bundle
\* with a sliceable argument gives exactly nchunks task tuples, tuple t
\* holding chunk t of every sliceable argument and every broadcast argument
\* unchanged.  Stated of both zipsplit functions.
C9_Alignment ==
  /\ (PartDone /\ part.fn \in {"split", "Pool.split"} /\ part.status = "ok") => Broadcast
  /\ (PartDone /\ part.fn \in {"zipsplit", "Pool.zipsplit"} /\ Sliceable
        /\ IntendedChunks(CodeDefault) >= 1) =>
        (part.status = "ok" /\ Aligned(part.val, IntendedChunks(CodeDefault)))

\* C9, of the Pool method alone (what Pool.zipsplit does give)
C9_PoolAlignment ==
  /\ (PartDone /\ part.fn \in {"split", "Pool.split"} /\ part.status = "ok") => Broadcast
  /\ (PartDone /\ part.fn = "Pool.zipsplit" /\ Sliceable
        /\ IntendedChunks(CodeDefault) >= 1) =>
        (part.status = "ok" /\ Aligned(part.val, IntendedChunks(CodeDefault)))

\* the number of chunks of every array of a finished split is n
NumChunks(n) ==
  /\ part.status = "ok"
  /\ \A k \in ArrayArgs : part.val[k].kind = "chunks" /\ Len(part.val[k].items) = n

\* the effective worker count of the call: the pool's np for the Pool
\* method, cpu_count() for the module-level function
WorkerCount == IF part.fn = "Pool.split" THEN np ELSE part.cpu

\* C10 as claimed: without nchunks and chunksize every split uses the
\* effective worker count; with only chunksize, max(1, length div
\* chunksize); a given nchunks unchanged.
C10_DefaultChunks ==
  (PartDone /\ part.fn \in {"split", "Pool.split"} /\ Sliceable
     /\ IntendedChunks(WorkerCount) >= 1) => NumChunks(IntendedChunks(WorkerCount))

\* C10 as amended: without nchunks and chunksize Pool.split uses the pool's
\* worker count np and the module-level split uses twice cpu_count(); with
\* only chunksize, max(1, length div chunksize); a given nchunks unchanged.
C10_DefaultChunksAmended ==
  (PartDone /\ part.fn \in {"split", "Pool.split"} /\ Sliceable
     /\ IntendedChunks(CodeDefault) >= 1) => NumChunks(IntendedChunks(CodeDefault))

\* C10 witness: the module-level split, given neither nchunks nor
\* chunksize with cpu_count() = 2, cut an array into 4 chunks.
C10_Witness ==
  /\ PartDone /\ part.fn = "split"
  /\ part.nchunks = NoneIdx /\ part.chunksize = NoneIdx
  /\ part.cpu = 2
  /\ part.list = <<Array(3)>>
  /\ NumChunks(4)

\* two sliceable arguments of the call differ in length
Mismatch ==
  \E j, k \in ArrayArgs : Len(part.list[j].val) # Len(part.list[k].val)

\* no map call was made: no queue exists and no slave was created or started
NoWorker ==
  /\ ~queues /\ started = 0 /\ pc = "idle"
  /\ \A r \in 0 .. (MaxNP - 1) : wpc[r] = "new"

\* C11: a split (split, Pool.split, Pool.zipsplit) whose sliceable
\* arguments differ in length fails with the length-mismatch error, giving
\* no chunk and with no worker spawned; when they all agree in length that
\* error is not raised.
C11_LengthMismatch ==
  (PartDone /\ part.fn \in {"split", "Pool.split", "Pool.zipsplit"}) =>
     /\ Mismatch =>
          (part.status = "ValueError: different lengths" /\ part.val = <<>> /\ NoWorker)
     /\ ~Mismatch => part.status # "ValueError: different lengths"

\* C11 witness: Pool.zipsplit of an array of length 4 and one of length 3
\* failed with the length-mismatch error.
C11_Witness ==
  /\ PartDone /\ part.fn = "Pool.zipsplit"
  /\ part.list = <<Array(4), Array(3)>>
  /\ part.nchunks = 2
  /\ part.status = "ValueError: different lengths"
  /\ part.val = <<>>

(***************************************************************************)
(* More properties of Pool.map.                                            *)
(***************************************************************************)
\* the Failure records put so far: those queued and those received
FailuresEmitted ==
  Cardinality({k \in 1 .. Len(Q) : Q[k].tag = "fail"}) + Len(error)

\* the slaves whose work function has raised
DeadSlaves == {r \in Ranks : wdead[r]}

\* what a step of slave r does when r is, or becomes, dead
DeadSlaveStep(r) ==
  /\ wdead[r] => wdead'[r]
  /\ (~wdead[r] /\ wdead'[r]) =>
        (Q' = Append(Q, Failure(wcap[r][1])) /\ wpc'[r] = "ack")
  /\ (wdead[r] /\ wpc[r] = "run" /\ wpc'[r] # "run") =>
        IF wcap[r] = Sentinel
          THEN wpc'[r] = "exiting" /\ Q' = Q /\ calls' = calls
          ELSE wpc'[r] = "ack" /\ Q' = Append(Q, Dead) /\ calls' = calls
  /\ (wdead[r] /\ wpc[r] = "ack" /\ wpc'[r] # "ack") =>
        (wpc'[r] = "get" /\ unfinished' = unfinished - 1)

\* C14: a slave whose work function raised puts exactly one Failure record
\* for that item and stays dead; from then on it never invokes the work
\* function, answers every work item it dequeues with one Dead record and
\* one task acknowledgement, and leaves its loop only on a sentinel; so
\* the Failure records are one per dead slave and at most np.
C14_DeadWorkerDraining ==
  /\ [](queues =>
          /\ FailuresEmitted = Cardinality(DeadSlaves)
          /\ FailuresEmitted <= np
          /\ \A r \in Ranks :
               wpc[r] \in {"exiting", "exited"} => (wcap[r] = Sentinel /\ sentinels[r] = 1))
  /\ [][\A r \in Ranks : DeadSlaveStep(r)]_vars

\* C14 witness: a slave that failed on one item has since answered another
\* item with a Dead record, without the work function being invoked on it,
\* and has taken a sentinel.
C14_Witness ==
  /\ queues /\ len = MaxL
  /\ \E r \in Ranks :
       /\ wdead[r] /\ wpc[r] = "exiting" /\ sentinels[r] = 1
       /\ \E k \in 0 .. (len - 1) : calls[k] = 0
  /\ S = <<>> /\ ItemsHeld = 0
  /\ FailuresEmitted = 1

\* C15: a serial or debug map call in which no work function raises
\* returns at every position k what the ordered parallel call returns
\* there (C2): the value of the work function on sequence[k], passed
\* through the callback when one was given.
C15_SerialParallelEquivalence ==
  (~queues /\ pc = "returned") =>
     /\ Len(out.vals) = len
     /\ \A k \in 0 .. (len - 1) : out.vals[k + 1] = Expected(k)

\* the slaves that are alive: started or not, they have not ended
AliveNow == Cardinality({r \in Ranks : wpc[r] # "exited"})

\* C16: when the master logs the "slaves alive after queue joined" warning
\* at the end of the join attempts, the number it names is the number of
\* slaves alive at that moment, and at least one slave is alive; for every
\* retry count, 0 included.
C16_WarningCount ==
  [][(pc = "report" /\ pc' # "report" /\ warnAlive' # NoneIdx) =>
        (warnAlive' = AliveNow /\ AliveNow >= 1)]_vars

\* sentinels still in the task queue, and sentinels the slaves have dequeued
SentinelsInS == Cardinality({k \in 1 .. Len(S) : S[k] = Sentinel})

SentinelsTaken == Cardinality({r \in Ranks : sentinels[r] >= 1})

\* the task queue holds work items of increasing index, then only sentinels
ItemsThenSentinels ==
  \A j, k \in 1 .. Len(S) :
    j < k => /\ S[j] = Sentinel => S[k] = Sentinel
             /\ (S[j] # Sentinel /\ S[k] # Sentinel) => S[j][1] < S[k][1]

\* C17: a parallel map puts the len work items in index order, then exactly
\* np sentinels, and starts its slaves only after that; the task queue
\* always holds items of increasing index followed by sentinels, so a slave
\* that has dequeued a sentinel finds no work item behind it in the queue,
\* and once every slave has exited the task queue is empty.
C17_DispatchOrder ==
  queues =>
     /\ ItemsThenSentinels
     /\ pc = "put_items" =>
          (started = 0 /\ S = [k \in 1 .. i |-> <<k - 1>>])
     /\ pc = "put_sentinels" =>
          (started = 0 /\ S = [k \in 1 .. (len + rank) |->
                                  IF k <= len THEN <<k - 1>> ELSE Sentinel])
     /\ pc = "start" => (started = rank /\ ItemsInS + ItemsHeld <= len)
     /\ started > 0 =>
          /\ pc \notin {"put_items", "put_sentinels"}
          /\ \A r \in Ranks : sentinels[r] <= 1
          /\ SentinelsInS + SentinelsTaken = np
     /\ \A r \in Ranks : sentinels[r] >= 1 => ItemsInS = 0
     /\ (\A r \in Ranks : wpc[r] = "exited") => S = <<>>

\* C17 witness: one slave has dequeued its sentinel while the other still
\* runs the last work item, and the queue holds the other sentinel only.
C17_Witness ==
  /\ queues /\ len = MaxL /\ np = 2
  /\ \E r \in Ranks : sentinels[r] = 1
  /\ ItemsHeld = 1
  /\ S = <<Sentinel>>

(***************************************************************************)
(* Properties of the backends and of the interrupt.                        *)
(***************************************************************************)
\* the call is over: it returned, raised, or was left by KeyboardInterrupt
CallOver == pc \in {"returned", "raised", "interrupted"}

\* the items whose work function invocation returned
Succeeded ==
  {R[j][1] : j \in 1 .. Len(R)} \cup
  {Q[j].a : j \in {m \in 1 .. Len(Q) : Q[m].tag = "ok"}}

\* C13: every write a slave's work function made to the SharedMemArray is
\* in the array the master reads, during and after the map call, with the
\* process backend as with the thread backend; the value is in the array
\* although the master has not taken the item's record from the result
\* queue, and a cell no invocation wrote is unchanged.
C13_SharedVisibility ==
  queues =>
     \A k \in 0 .. (len - 1) :
        shm[k] = IF calls[k] >= 1 /\ k \in Succeeded
                   THEN workfunc(sequence(len)[k + 1]) ELSE Unwritten

\* C13 witness: a map call on the process backend has returned; the
\* SharedMemArray holds the value of every item, and the ordinary array of
\* the master holds none of the slaves' writes.
C13_Witness ==
  /\ queues /\ ~use_threads /\ pc = "returned"
  /\ len = BackMaxL /\ np = BackMaxNP
  /\ \A k \in 0 .. (len - 1) :
       shm[k] = workfunc(sequence(len)[k + 1]) /\ ordinary[k] = Unwritten

\* C18 as claimed: a call the master was interrupted in while collecting
\* ends only after the shutdown steps: the task queue is joined, the
\* result queue is empty and the call reports what it has received.
C18_InterruptResponse ==
  (queues /\ CallOver) =>
     /\ unfinished = 0
     /\ Q = <<>>
     /\ out.kind \in {"array", "raise"}

\* what the master has done when KeyboardInterrupt left the call, and what
\* the slaves can still do
Interrupted ==
  /\ out.kind = "KeyboardInterrupt" /\ out.vals = <<>>
  /\ alive = 0 /\ warnAlive = NoneIdx /\ extra = 0
  /\ Len(Q) + (len - L) = len - ItemsInS - ItemsHeld
  /\ ItemsThenSentinels
  /\ \A r \in Ranks :
       /\ wpc[r] # "new"
       /\ wpc[r] # "exited" => ENABLED Slave(r)

\* C18 as amended: an interrupt delivered while the master collects leaves
\* map at once with KeyboardInterrupt: the master joins neither the task
\* queue nor the slaves, makes no leftover check and returns no result, and
\* never resumes; that is the only way the master leaves the collection
\* early.  The slaves are not interrupted: each can go on until it has taken
\* its sentinel and ended, so the queued work items are still processed.
C18_InterruptAmended ==
  /\ []((queues /\ pc = "interrupted") => Interrupted)
  /\ [][/\ pc = "interrupted" =>
            (pc' = pc /\ out' = out /\ R' = R /\ error' = error /\ L' = L /\ i' = i)
        /\ (pc = "collect" /\ pc' # "collect" /\ (L > 0 \/ unfinished > 0)) =>
            pc' = "interrupted"]_vars

\* C18 witness: the master was interrupted before it received any record;
\* the slaves have since processed every item and ended, and the records
\* lie in the result queue.
C18_Witness ==
  /\ queues /\ pc = "interrupted"
  /\ len = BackMaxL /\ np = BackMaxNP /\ L = len
  /\ \A k \in 0 .. (len - 1) : calls[k] = 1
  /\ \A r \in Ranks : wpc[r] = "exited"
  /\ Len(Q) = len /\ S = <<>> /\ unfinished = 0

(***************************************************************************)
(* Properties of argsort.                                                  *)
(***************************************************************************)
SortDone == sort.phase = "done"

\* p lists equal keys in the order of their indices
Stable(keys, p) ==
  \A j, k \in 1 .. Len(p) :
    (j < k /\ keys[p[j] + 1] = keys[p[k] + 1]) => p[j] < p[k]

ChunkSorted(k) ==
  \/ sort.phase = "local" /\ k < sort.next /\ k \notin sort.inflight
  \/ sort.phase = "merge" /\ sort.round = 0

\* the range of chunk k in the index buffer, and the keys of the chunk
ChunkRange(k) == Slice(Arg1, sort.suboffsets[k + 1], sort.sublengths[k + 1])

ChunkKeys(k) == Slice(sort.data, sort.suboffsets[k + 1], sort.sublengths[k + 1])

\* C19 as claimed: after phase 1 the range of every chunk k holds a
\* permutation of the global indices o_k .. o_k + l_k - 1 that sorts the
\* chunk's keys.
C19_LocalSortPhase ==
  (sort.phase = "merge" /\ sort.round = 0) =>
     \A k \in 0 .. (sort.nchunks - 1) :
        LET o == sort.suboffsets[k + 1]
            q == ChunkRange(k)
        IN /\ \A j \in 1 .. Len(q) : q[j] \in o .. (o + Len(q) - 1)
           /\ \A j, m \in 1 .. Len(q) : j # m => q[j] # q[m]
           /\ SortsKeys(sort.data, q)

\* C19 as amended: once the local sort of chunk k has run, and until the
\* first merge round ends, the range of chunk k holds a permutation of the
\* chunk's own indices 0 .. l_k - 1, counted from the start of the chunk,
\* that sorts the chunk's keys; no offset is added.
C19_LocalSortPhaseAmended ==
  \A k \in 0 .. (sort.nchunks - 1) :
     ChunkSorted(k) =>
        /\ Len(ChunkRange(k)) = sort.sublengths[k + 1]
        /\ IsPermutation(ChunkRange(k))
        /\ SortsKeys(ChunkKeys(k), ChunkRange(k))

\* C19 witness: phase 1 is over; the second chunk, which starts at offset 2
\* and has two keys in decreasing order, holds the indices 1, 0.
C19_Witness ==
  /\ sort.phase = "merge" /\ sort.round = 0 /\ sort.written = "none"
  /\ sort.cpu = 2 /\ Len(sort.data) = MaxSortLen
  /\ sort.suboffsets[2] = 2 /\ sort.sublengths[2] = 2
  /\ sort.data[3] > sort.data[4]
  /\ ChunkRange(1) = <<1, 0>>

\* the smallest power of two that is at least n (n >= 1)
PowerOfTwoAtLeast(n) ==
  CHOOSE m \in {2 ^ e : e \in 0 .. n} :
    m >= n /\ \A e \in 0 .. n : 2 ^ e >= n => m <= 2 ^ e

\* the runs lie one after the other from offset 0 and cover the array
RunsCover ==
  /\ Len(sort.suboffsets) = Len(sort.sublengths)
  /\ \A k \in 1 .. Len(sort.sublengths) :
       sort.suboffsets[k] = cumsum(sort.sublengths, k - 1)
  /\ cumsum(sort.sublengths, Len(sort.sublengths)) = Len(sort.data)

\* C20: phase 2 starts with 4 times the smallest power of two >= cpu_count()
\* runs; the number of runs is even in every round; every round halves it
\* and swaps arg1 and arg2; the loop ends with one run at offset 0 as long
\* as the array, and the buffer returned is the one the last merge round
\* wrote.
C20_MergeTree ==
  /\ sort.phase \in {"local", "merge"} =>
        /\ sort.nchunks = 4 * PowerOfTwoAtLeast(sort.cpu)
        /\ RunsCover
  /\ sort.phase = "merge" =>
        /\ Len(sort.sublengths) % 2 = 0
        /\ Len(sort.sublengths) * (2 ^ sort.round) = sort.nchunks
        /\ sort.arg1 = (IF sort.round % 2 = 0 THEN "A" ELSE "B")
        /\ sort.arg2 = (IF sort.round % 2 = 0 THEN "B" ELSE "A")
        /\ (sort.round > 0 /\ sort.next = 0) => sort.written = sort.arg1
        /\ sort.written \in {sort.arg1, sort.arg2, "none"}
  /\ (SortDone /\ sort.cpu > 1) =>
        /\ 2 ^ sort.round = sort.nchunks
        /\ sort.suboffsets = <<0>>
        /\ sort.sublengths = <<Len(sort.data)>>
        /\ sort.written = sort.arg1
        /\ sort.result = sort.buf[sort.written]
        /\ \A j \in 1 .. Len(sort.result) : sort.result[j] # Uninit

\* C20 witness: with three cpus argsort began with 16 runs and returned
\* after 4 rounds the buffer the fourth round wrote.
C20_Witness ==
  /\ SortDone /\ sort.cpu = 3 /\ sort.nchunks = 16
  /\ sort.round = 4
  /\ sort.written = sort.arg1
  /\ Len(sort.data) = MaxSortLen
  /\ sort.sublengths = <<MaxSortLen>>

(***************************************************************************)
(* Properties left implicit: single execution, and the merge ranges.       *)
(***************************************************************************)
\* how often the work item of index k lies in the task queue
InS(k) == Cardinality({j \in 1 .. Len(S) : S[j] = <<k>>})

\* the slaves that hold the work item of index k, dequeued and not yet
\* acknowledged
Holders(k) == {r \in Ranks : wpc[r] \in {"run", "ack"} /\ wcap[r] = <<k>>}

\* the indices the work function was never invoked on
Unexecuted == {k \in 0 .. (len - 1) : calls[k] = 0}

\* the task queue is joined: every item was dequeued and acknowledged
Joined ==
  pc \in {"drain", "join_loop", "join_rank", "joining", "report", "returned", "raised"}

\* a step of slave r: a get hands the head of the task queue to r alone and
\* removes it; the answer to a held item invokes the work function on that
\* item, once, unless r had failed before
SingleExecutionStep(r) ==
  /\ (wpc[r] = "get" /\ wpc'[r] = "run") =>
        /\ S # <<>> /\ wcap'[r] = Head(S) /\ S' = Tail(S)
        /\ \A q \in Ranks : q # r => (wcap'[q] = wcap[q] /\ wpc'[q] = wpc[q])
  /\ (wpc[r] = "run" /\ wpc'[r] = "ack") =>
        IF wdead[r] THEN calls' = calls
        ELSE calls[wcap[r][1]] = 0 /\ calls' = [calls EXCEPT ![wcap[r][1]] = 1]

\* C21: in a parallel map call every work item index is dequeued by exactly
\* one slave and the work function is invoked at most once on it, under any
\* interleaving; when the task queue is joined every index was invoked
\* exactly once if no invocation raised, and the indices never invoked are
\* as many as the Dead records, each dequeued by a slave that had failed.
C21_SingleExecution ==
  /\ [](queues =>
          /\ \A k \in 0 .. (len - 1) :
               /\ calls[k] <= 1
               /\ InS(k) + Cardinality(Holders(k)) <= 1
               /\ calls[k] = 1 => InS(k) = 0
               /\ (k < ItemsPut /\ calls[k] = 0 /\ ~SomeRaised) =>
                     InS(k) + Cardinality(Holders(k)) = 1
          /\ Joined =>
               /\ ~SomeRaised => Unexecuted = {}
               /\ Cardinality(Unexecuted) = len - Len(R) - Len(error)
               /\ \A k \in 0 .. (len - 1) : InS(k) = 0 /\ Holders(k) = {})
  /\ [][queues =>
          /\ \A r \in Ranks : SingleExecutionStep(r)
          /\ calls' # calls =>
               \E r \in Ranks : wpc[r] = "run" /\ wpc'[r] = "ack" /\ ~wdead[r]]_vars

\* C21 witness: on the largest pool a call of full length has raised; the
\* first item was invoked once and raised, the last was dequeued by the
\* failed slave and never invoked, every other item was invoked once.
C21_Witness ==
  /\ queues /\ pc = "raised" /\ len = MaxL /\ np = MaxNP
  /\ Len(error) = 1 /\ error[1][2] = 0
  /\ Unexecuted = {len - 1}
  /\ Len(R) = len - 2

\* the runs are contiguous: each begins where the one before it ends
RunsContiguous ==
  /\ Len(sort.suboffsets) = Len(sort.sublengths)
  /\ sort.suboffsets[1] = 0
  /\ \A k \in 1 .. (Len(sort.sublengths) - 1) :
       sort.suboffsets[k + 1] = sort.suboffsets[k] + sort.sublengths[k]
  /\ sort.suboffsets[Len(sort.sublengths)] + sort.sublengths[Len(sort.sublengths)]
        = Len(sort.data)

\* the buffer positions (from 0) merge task t of the round writes
MergeRange(t) ==
  {sort.suboffsets[2 * t + 1] + j :
     j \in 0 .. (sort.sublengths[2 * t + 1] + sort.sublengths[2 * t + 2] - 1)}

\* the merge tasks of the round that have run
MergesDone == {t \in 0 .. (sort.next - 1) : t \notin sort.inflight}

\* the step in which merge task t runs: it leaves the current buffer as it
\* is, changes the scratch buffer inside its range only, and what it writes
\* there is the merge of the two adjacent runs of the current buffer
MergeStep(t) ==
  LET off1 == sort.suboffsets[2 * t + 1]
      len1 == sort.sublengths[2 * t + 1]
      len2 == sort.sublengths[2 * t + 2]
  IN /\ sort'.buf[sort.arg1] = sort.buf[sort.arg1]
     /\ \A j \in 0 .. (Len(sort.data) - 1) :
          j \notin MergeRange(t) => sort'.buf[sort.arg2][j + 1] = sort.buf[sort.arg2][j + 1]
     /\ Slice(sort'.buf[sort.arg2], off1, len1 + len2) =
          merge(Slice(sort.data, off1, len1 + len2),
                Slice(Arg1, off1, len1), Slice(Arg1, off1 + len1, len2))

\* C22: in every merge round of argsort the runs are contiguous and cover
\* the array; the ranges the merge tasks of the round write are pairwise
\* disjoint and together are [0, len(data)); a merge task reads the two
\* adjacent runs it pairs from the current buffer and writes its own range
\* of the scratch buffer only, so what a task wrote stays as it wrote it
\* while the other tasks of the round run.
C22_MergeRanges ==
  /\ [](sort.phase = "merge" =>
          /\ RunsContiguous
          /\ \A t, u \in 0 .. (SortTasks - 1) :
               t # u => MergeRange(t) \cap MergeRange(u) = {}
          /\ UNION {MergeRange(t) : t \in 0 .. (SortTasks - 1)}
                = 0 .. (Len(sort.data) - 1)
          /\ \A t \in 0 .. (SortTasks - 1) :
               \A j \in MergeRange(t) :
                  /\ t \in MergesDone => Arg2[j + 1] # Uninit
                  /\ (t \notin MergesDone /\ sort.round = 0) => Arg2[j + 1] = Uninit)
  /\ [][\A t \in 0 .. (SortTasks - 1) :
          (sort.phase = "merge" /\ t \in sort.inflight /\ sort'.phase = "merge"
             /\ sort'.inflight = sort.inflight \ {t}) => MergeStep(t)]_vars

\* C22 witness: in the second round on two cpus the second merge task has
\* written positions 6 to 9 of the scratch buffer while the first, which
\* writes positions 0 to 5, is still to run.
C22_Witness ==
  /\ sort.phase = "merge" /\ sort.round = 1 /\ sort.cpu = 2
  /\ Len(sort.data) = MaxSortLen
  /\ sort.sublengths = <<4, 2, 2, 2>>
  /\ sort.next = 2 /\ sort.inflight = {0}
  /\ MergeRange(0) = 0 .. 5 /\ MergeRange(1) = 6 .. 9
  /\ sort.written = sort.arg2

====
